---- MODULE Spec2Model ----
(***************************************************************************)
(* Narrative Metrics API (src/backend/backend.py) and its client          *)
(* (src/utils.py, src/api_client.py).                                      *)
(*                                                                         *)
(* The state is the articles table the endpoint reads and the last call    *)
(* of narrative_metrics: its query parameters, the HTTP status, the        *)
(* intermediate relations of the SQL query, the Python lists built from    *)
(* the fetched rows and the returned list of Metric objects.               *)
(*                                                                         *)
(* Dates are day numbers (integers).  Numbers that the code holds as       *)
(* numeric / double precision are modelled as exact reals of the form      *)
(* c * sqrt(r), with c and r rationals: this is closed under every         *)
(* operation the endpoint applies (mean, sample standard deviation,        *)
(* GREATEST, one division) and can be compared exactly.  Floating-point    *)
(* rounding is not modelled.                                               *)
(***************************************************************************)
EXTENDS Integers, Sequences, FiniteSets, TLC

VARIABLES
    articles,        \* rows of the articles table
    req,             \* query parameters of the last call, None before any call
    status,          \* 0 before any call, else the HTTP status of the last call
    rolling_stats,   \* rows of the rolling_stats CTE of the last call
    rows,            \* rows fetched by conn.fetch
    dates, counts, rmean, rstd, intensities, sentiments,
    intensity_pcts, sentiment_pcts,
    metrics,         \* the returned list
    \* src/utils.py, as called by the dashboard (src/app.py)
    metrics_df,      \* the DataFrame: rows [date, intensity]
    target_date,     \* the selected date
    horizons,        \* the list of horizons
    threshold,       \* the alert threshold
    moves,           \* the dict returned by calculate_horizon_moves
    alerts,          \* the list returned by detect_alerts
    step,            \* "idle", "selected", "moves" or "alerts"
    \* src/api_client.py: get_narrative_metrics under st.cache_data(ttl=300)
    cache,           \* the entries of the cache
    now,             \* the clock, in seconds
    call,            \* the arguments of the last call, None before any call
    outcome,         \* how the last call ended: "hit", "ok", "timeout", ...
    sent,            \* the request the last call sent, None if it sent none
    origin,          \* the request whose answer the last call returned
    returned,        \* the list the last call returned
    ncalls,          \* the number of calls made
    \* src/app.py: the dashboard script; st.session_state and the current run
    dashboard_analysis_run, analysis_stopped,
    dashboard_data_cached, all_alerts_cached,
    pc,              \* "start", "halt", "loop", "table" or "rerun"
    clicked,         \* the button whose click started the current run
    selected_narratives,
    stop_button,     \* the current run has rendered the Stop button
    dashboard_data, all_alerts,
    idx,             \* the 1-based index of the loop
    loaded           \* the narratives fetched in the current run, with the outcome

backendVars == <<articles, req, status, rolling_stats, rows, dates, counts, rmean, rstd,
                 intensities, sentiments, intensity_pcts, sentiment_pcts, metrics>>

utilsVars == <<metrics_df, target_date, horizons, threshold, moves, alerts, step>>

cacheVars == <<cache, now, call, outcome, sent, origin, returned, ncalls>>

sessionVars == <<dashboard_analysis_run, analysis_stopped, dashboard_data_cached,
                 all_alerts_cached>>

dashboardVars == <<sessionVars, pc, clicked, selected_narratives, stop_button,
                   dashboard_data, all_alerts, idx, loaded>>

frontendVars == <<utilsVars, cacheVars, dashboardVars>>

vars == <<backendVars, frontendVars>>

(***************************************************************************)
(* Bounds of the model.                                                    *)
(***************************************************************************)
MaxRows == 2       \* rows in the articles table
MaxWin == 2        \* accepted window and percentile_window range over 1..MaxWin

\* start_date and end_date of a call: two consecutive days
RequestDates == {0, 1}
\* the labels in the table; calls ask for the first
Narratives == {"A", "B"}
Requested == {"A"}
Ids == {1}
(* sentiment_score is a nullable column; the non-null scores are rationals *)
Scores == {<<-1, 1>>, <<1, 1>>}
EpsValues == {<<1, 4>>, <<1, 1>>}

(***************************************************************************)
(* Python None / SQL NULL.                                                 *)
(***************************************************************************)
None == <<>>

(***************************************************************************)
(* Exact rationals <<n, d>> with d > 0, in lowest terms.                   *)
(***************************************************************************)
Abs(n) == IF n < 0 THEN -n ELSE n

Max(a, b) == IF a >= b THEN a ELSE b

Min(a, b) == IF a <= b THEN a ELSE b

RECURSIVE GCD(_, _)
GCD(a, b) == IF b = 0 THEN a ELSE GCD(b, a % b)

Rat(n, d) ==
    LET s == IF d < 0 THEN -1 ELSE 1
        g == GCD(Abs(n), Abs(d))
    IN  <<(s * n) \div g, (s * d) \div g>>

RZero == <<0, 1>>
ROne == <<1, 1>>
RInt(n) == <<n, 1>>
RAdd(x, y) == Rat(x[1] * y[2] + y[1] * x[2], x[2] * y[2])
RSub(x, y) == Rat(x[1] * y[2] - y[1] * x[2], x[2] * y[2])
RMul(x, y) == Rat(x[1] * y[1], x[2] * y[2])
RDiv(x, y) == Rat(x[1] * y[2], x[2] * y[1])
RLess(x, y) == x[1] * y[2] < y[1] * x[2]
RLeq(x, y) == x[1] * y[2] <= y[1] * x[2]

(***************************************************************************)
(* Exact reals <<c, r>> standing for c * sqrt(r), c and r rationals,       *)
(* r >= 0.                                                                 *)
(***************************************************************************)
FRat(x) == <<x, ROne>>
FZero == FRat(RZero)
FInt(n) == FRat(RInt(n))
FSqrt(v) == <<ROne, v>>
FSign(x) ==
    IF x[1][1] = 0 \/ x[2][1] = 0 THEN 0
    ELSE IF x[1][1] < 0 THEN -1 ELSE 1
\* the square of x as a fraction <<n, d>>, d > 0, not reduced
FSquare(x) == <<x[1][1] * x[1][1] * x[2][1], x[1][2] * x[1][2] * x[2][2]>>
FLess(x, y) ==
    IF FSign(x) # FSign(y) THEN FSign(x) < FSign(y)
    ELSE IF FSign(x) = 1 THEN RLess(FSquare(x), FSquare(y))
    ELSE IF FSign(x) = -1 THEN RLess(FSquare(y), FSquare(x))
    ELSE FALSE
FEq(x, y) == ~FLess(x, y) /\ ~FLess(y, x)
FLeq(x, y) == ~FLess(y, x)
FDiv(x, y) == <<RDiv(x[1], y[1]), RDiv(x[2], y[2])>>

(***************************************************************************)
(* A function constructor over 1..n, held as a tuple.                      *)
(***************************************************************************)
AsSeq(f) == f \o <<>>

(***************************************************************************)
(* The articles table: the columns the query reads.  published_at is a     *)
(* timestamp, counted in hours; day d runs from hour 24 * d to 24 * d + 23.*)
(***************************************************************************)
ItemDays == (0 - MaxWin)..1

\* the items are published at noon
ItemTimes == {24 * d + 12 : d \in ItemDays}

\* published_at::date
DateOf(ts) == ts \div 24

\* Rows of the requested narrative on any day with any score; rows of another
\* narrative on the first request day, with a score.
ArticleRows ==
    {r \in [id : Ids, primary_label_v2 : Narratives, published_at : ItemTimes,
             sentiment_score : Scores \cup {None}] :
        \/ r.primary_label_v2 \in Requested
        \/ DateOf(r.published_at) = 0 /\ r.sentiment_score = <<1, 1>>}

RECURSIVE Tables(_)
Tables(k) ==
    IF k = 0 THEN {{}}
    ELSE LET smaller == Tables(k - 1)
         IN  smaller \cup {t \cup {r} : t \in smaller, r \in ArticleRows}

(***************************************************************************)
(* SQL aggregates over a set of daily_items rows <<id, date, score>>.      *)
(***************************************************************************)
RECURSIVE SumScores(_)
SumScores(items) ==
    IF items = {} THEN RZero
    ELSE LET t == CHOOSE t \in items : TRUE
         IN  RAdd(t[3], SumScores(items \ {t}))

\* AVG(sentiment_score): NULL inputs are ignored, NULL when none is left
AvgScore(items) ==
    LET nonnull == {t \in items : t[3] # None}
    IN  IF nonnull = {} THEN None
        ELSE FRat(RDiv(SumScores(nonnull), RInt(Cardinality(nonnull))))

(***************************************************************************)
(* The CTEs of the query, in order.                                        *)
(***************************************************************************)
\* generate_series($2::date, $3::date, interval '1 day')
calendar(lo, hi) == AsSeq([i \in 1..Max(0, hi - lo + 1) |-> lo + i - 1])

\* faulty variant: the WHERE clause does not filter on the narrative
daily_items_AnyNarrative(table, narrative, lo, hi) ==
    {<<a.id, DateOf(a.published_at), a.sentiment_score>> :
        a \in {b \in table : /\ DateOf(b.published_at) >= lo
                             /\ DateOf(b.published_at) <= hi}}

\* SELECT DISTINCT id, published_at::date, sentiment_score ... WHERE ...
daily_items(table, narrative, lo, hi) ==
    {<<a.id, DateOf(a.published_at), a.sentiment_score>> :
        a \in {b \in table : /\ b.primary_label_v2 = narrative
                             /\ DateOf(b.published_at) >= lo
                             /\ DateOf(b.published_at) <= hi}}

\* GROUP BY narrative_date: one row per date that has items
daily_agg(items) ==
    [d \in {t[2] : t \in items} |->
        LET grp == {t \in items : t[2] = d}
        IN  [article_count |-> Cardinality(grp), sentiment_mean |-> AvgScore(grp)]]
    @@ <<>>

\* calendar LEFT JOIN daily_agg, COALESCE(article_count, 0)
daily_series(cal, agg) ==
    AsSeq([i \in 1..Len(cal) |->
        IF cal[i] \in DOMAIN agg
        THEN [narrative_date |-> cal[i],
              article_count |-> agg[cal[i]].article_count,
              sentiment_mean |-> agg[cal[i]].sentiment_mean]
        ELSE [narrative_date |-> cal[i], article_count |-> 0, sentiment_mean |-> None]])

\* faulty variant: the frame ends at the current row
Frame_CurrentRow(i, win) == Max(1, i - win + 1)..i

\* faulty variant: ROWS BETWEEN UNBOUNDED PRECEDING AND 1 PRECEDING
Frame_Unbounded(i, win) == 1..(i - 1)

\* ROWS BETWEEN win PRECEDING AND 1 PRECEDING, as positions of the ordered series
Frame(i, win) == Max(1, i - win)..(i - 1)

RECURSIVE SumCounts(_, _)
SumCounts(series, frame) ==
    IF frame = {} THEN 0
    ELSE LET j == CHOOSE j \in frame : TRUE
         IN  series[j].article_count + SumCounts(series, frame \ {j})

RECURSIVE SumSquares(_, _)
SumSquares(series, frame) ==
    IF frame = {} THEN 0
    ELSE LET j == CHOOSE j \in frame : TRUE
         IN  series[j].article_count * series[j].article_count
                + SumSquares(series, frame \ {j})

\* AVG(article_count) OVER frame: NULL on an empty frame
AvgCount(series, frame) ==
    IF frame = {} THEN None
    ELSE FRat(Rat(SumCounts(series, frame), Cardinality(frame)))

\* faulty variant: the population standard deviation, divisor N
StddevSamp_Population(series, frame) ==
    LET n == Cardinality(frame)
        sx == SumCounts(series, frame)
        sxx == SumSquares(series, frame)
        numer == n * sxx - sx * sx
    IN  IF n < 2 THEN None
        ELSE IF numer <= 0 THEN FZero
        ELSE FSqrt(Rat(numer, n * n))

\* STDDEV_SAMP(article_count) OVER frame: NULL on fewer than two rows, else
\* sqrt((N * sum(x^2) - sum(x)^2) / (N * (N - 1))), a non-positive numerator giving 0
StddevSamp(series, frame) ==
    LET n == Cardinality(frame)
        sx == SumCounts(series, frame)
        sxx == SumSquares(series, frame)
        numer == n * sxx - sx * sx
    IN  IF n < 2 THEN None
        ELSE IF numer <= 0 THEN FZero
        ELSE FSqrt(Rat(numer, n * (n - 1)))

rolling_stats_cte(series, win) ==
    AsSeq([i \in 1..Len(series) |->
        [narrative_date |-> series[i].narrative_date,
         article_count |-> series[i].article_count,
         sentiment_mean |-> series[i].sentiment_mean,
         baseline_n |-> Cardinality(Frame(i, win)),
         rolling_mean |-> AvgCount(series, Frame(i, win)),
         rolling_std |-> StddevSamp(series, Frame(i, win))]])

Coalesce(v, dflt) == IF v = None THEN dflt ELSE v

\* GREATEST(a, b)
Greatest(a, b) == IF FLess(a, b) THEN b ELSE a

\* article_count - rolling_mean: both rational
CountMinus(count, mean) == FRat(RSub(RInt(count), mean[1]))

\* faulty variant: a baseline of a single day is treated like an empty one
IntensityCase_OneDayIsEmpty(r, eps) ==
    IF r.baseline_n <= 1 THEN FZero
    ELSE FDiv(CountMinus(r.article_count, Coalesce(r.rolling_mean, FZero)),
              Greatest(Coalesce(r.rolling_std, FZero), FRat(eps)))

\* the CASE expression of the final SELECT
IntensityCase(r, eps) ==
    IF r.baseline_n = 0 THEN FZero
    ELSE FDiv(CountMinus(r.article_count, Coalesce(r.rolling_mean, FZero)),
              Greatest(Coalesce(r.rolling_std, FZero), FRat(eps)))

\* the final SELECT ... FROM rolling_stats ORDER BY narrative_date
final_select(stats, eps) ==
    AsSeq([i \in 1..Len(stats) |->
        [narrative_date |-> stats[i].narrative_date,
         article_count |-> stats[i].article_count,
         rolling_mean |-> stats[i].rolling_mean,
         rolling_std |-> stats[i].rolling_std,
         intensity |-> IntensityCase(stats[i], eps),
         sentiment_mean |-> stats[i].sentiment_mean]])

(***************************************************************************)
(* The Python half of narrative_metrics.                                   *)
(***************************************************************************)
RECURSIVE CountLess_OrEqual(_, _)
\* faulty variant: v <= x
CountLess_OrEqual(window_values, x) ==
    IF window_values = <<>> THEN 0
    ELSE (IF FLeq(Head(window_values), x) THEN 1 ELSE 0)
            + CountLess_OrEqual(Tail(window_values), x)

RECURSIVE CountLess(_, _)
\* sum(1 for v in window_values if v < x)
CountLess(window_values, x) ==
    IF window_values = <<>> THEN 0
    ELSE (IF FLess(Head(window_values), x) THEN 1 ELSE 0)
            + CountLess(Tail(window_values), x)

\* faulty variant: rank / (n - 1)
_percent_rank_RankNotReduced(window_values, x) ==
    LET n == Len(window_values)
        less == CountLess(window_values, x)
        rank == 1 + less
    IN  IF n <= 1 THEN FZero ELSE FRat(Rat(rank, n - 1))

\* faulty variant: a window of one value ranks its value at the top
_percent_rank_SingleIsTop(window_values, x) ==
    LET n == Len(window_values)
        less == CountLess(window_values, x)
        rank == 1 + less
    IN  IF n <= 1 THEN FInt(1) ELSE FRat(Rat(rank - 1, n - 1))

_percent_rank(window_values, x) ==
    LET n == Len(window_values)
        less == CountLess(window_values, x)
        rank == 1 + less
    IN  IF n <= 1 THEN FZero ELSE FRat(Rat(rank - 1, n - 1))

\* the Query(...) declarations: ge / le / gt bounds checked by the framework
WindowGe == 1
WindowLe == 365
PercentileWindowGe == 1
PercentileWindowLe == 730
EpsilonLe == 10

\* faulty variant: the ge bounds of window and percentile_window are not declared
QueryValid_NoLowerBound(q) ==
    /\ q.window <= WindowLe
    /\ q.percentile_window <= PercentileWindowLe
    /\ RLess(RZero, q.epsilon) /\ RLeq(q.epsilon, RInt(EpsilonLe))

QueryValid(q) ==
    /\ q.window >= WindowGe /\ q.window <= WindowLe
    /\ q.percentile_window >= PercentileWindowGe
    /\ q.percentile_window <= PercentileWindowLe
    /\ RLess(RZero, q.epsilon) /\ RLeq(q.epsilon, RInt(EpsilonLe))

win_of(q) == Max(1, Min(q.window, WindowLe))
pwin_of(q) == Max(1, Min(q.percentile_window, PercentileWindowLe))
\* faulty variant: the lookback covers the rolling window only
history_days_WindowOnly(q) == win_of(q)

history_days(q) == Max(win_of(q), pwin_of(q))
\* faulty variant: the query starts at start_date
calc_start_NoLookback(q) == q.start_date

\* faulty variant: the lookback is one day short
calc_start_OneDayShort(q) == q.start_date - history_days(q) + 1

calc_start(q) == q.start_date - history_days(q)

\* the rolling_stats CTE of the query run for q over table, each CTE computed
\* once from the one before
QueryStats(table, q) ==
    CHOOSE stats \in
        {rolling_stats_cte(series, win_of(q)) :
            series \in
                {daily_series(calendar(calc_start(q), q.end_date), agg) :
                    agg \in
                        {daily_agg(items) :
                            items \in {daily_items(table, q.narrative,
                                                    calc_start(q), q.end_date)}}}} : TRUE

\* lst[start_idx : stop] of Python, 0-based and end-exclusive, on a 1-based sequence
Slice(lst, start_idx, stop) == SubSeq(lst, start_idx + 1, stop)

RECURSIVE NotNone(_)
\* [v for v in lst if v is not None]
NotNone(lst) ==
    IF lst = <<>> THEN <<>>
    ELSE IF Head(lst) = None THEN NotNone(Tail(lst))
    ELSE <<Head(lst)>> \o NotNone(Tail(lst))

\* faulty variant: a window of pwin + 1 days
start_idx_OneMore(i, pwin) == Max(0, i - pwin)

\* start_idx of the percentile loop, for the 0-based index i
start_idx(i, pwin) == Max(0, i - pwin + 1)

IntensityPct(ints, i, pwin) ==
    _percent_rank(Slice(ints, start_idx(i, pwin), i + 1), ints[i + 1])

\* faulty variant: the window is every defined value up to day i
SentimentPct_WholeHistory(sents, i, pwin) ==
    IF sents[i + 1] = None THEN None
    ELSE _percent_rank(NotNone(Slice(sents, 0, i + 1)), sents[i + 1])

\* faulty variant: a day without sentiment gets percentile 0
SentimentPct_ZeroForNone(sents, i, pwin) ==
    IF sents[i + 1] = None THEN FZero
    ELSE _percent_rank(NotNone(Slice(sents, start_idx(i, pwin), i + 1)), sents[i + 1])

SentimentPct(sents, i, pwin) ==
    IF sents[i + 1] = None THEN None
    ELSE _percent_rank(NotNone(Slice(sents, start_idx(i, pwin), i + 1)), sents[i + 1])

\* faulty variant: the start date is excluded
InRange_AfterStart(d, q) == q.start_date < d /\ d <= q.end_date

\* the output filter: start_date <= d <= end_date
InRange(d, q) == q.start_date <= d /\ d <= q.end_date

RECURSIVE Kept(_, _, _)
\* the 1-based positions i <= n of ds whose date passes the filter, in order
Kept(ds, q, n) ==
    IF n = 0 THEN <<>>
    ELSE Kept(ds, q, n - 1) \o (IF InRange(ds[n], q) THEN <<n>> ELSE <<>>)

\* calls whose parameters all pass the Query(...) bounds
InBounds ==
    [narrative : Requested, start_date : RequestDates, end_date : RequestDates,
     window : 1..MaxWin, percentile_window : 1..MaxWin, epsilon : EpsValues]

\* calls with one parameter just outside its bounds
OutOfBounds ==
    LET sample == {q \in InBounds : /\ q.window = 1 /\ q.percentile_window = 1
                                     /\ q.start_date = 0}
    IN  {[q EXCEPT !.window = w] : q \in sample, w \in {WindowGe - 1, WindowLe + 1}}
        \cup {[q EXCEPT !.percentile_window = w] :
                    q \in sample, w \in {PercentileWindowGe - 1, PercentileWindowLe + 1}}
        \cup {[q EXCEPT !.epsilon = e] : q \in sample, e \in {RZero, RInt(EpsilonLe + 1)}}

Requests == InBounds \cup OutOfBounds

\* the client has made no call
UtilsIdle ==
    /\ metrics_df = <<>> /\ target_date = None /\ horizons = <<>> /\ threshold = None
    /\ moves = <<>> /\ alerts = <<>> /\ step = "idle"

\* the cache is empty and get_narrative_metrics has not been called
CacheIdle ==
    /\ cache = {} /\ now = 0 /\ call = None /\ outcome = "none"
    /\ sent = None /\ origin = None /\ returned = <<>> /\ ncalls = 0

\* the session state as the script initialises it; the script has not run
DashboardIdle ==
    /\ dashboard_analysis_run = FALSE /\ analysis_stopped = FALSE
    /\ dashboard_data_cached = <<>> /\ all_alerts_cached = <<>>
    /\ pc = "start" /\ clicked = "none" /\ selected_narratives = <<>>
    /\ stop_button = FALSE /\ dashboard_data = <<>> /\ all_alerts = <<>>
    /\ idx = 0 /\ loaded = <<>>

FrontendIdle == UtilsIdle /\ CacheIdle /\ DashboardIdle

Empty ==
    /\ rolling_stats' = <<>> /\ rows' = <<>> /\ dates' = <<>> /\ counts' = <<>>
    /\ rmean' = <<>> /\ rstd' = <<>> /\ intensities' = <<>> /\ sentiments' = <<>>
    /\ intensity_pcts' = <<>> /\ sentiment_pcts' = <<>> /\ metrics' = <<>>

Init ==
    /\ articles \in Tables(MaxRows)
    /\ req = None
    /\ status = 0
    /\ rolling_stats = <<>> /\ rows = <<>> /\ dates = <<>> /\ counts = <<>>
    /\ rmean = <<>> /\ rstd = <<>> /\ intensities = <<>> /\ sentiments = <<>>
    /\ intensity_pcts = <<>> /\ sentiment_pcts = <<>> /\ metrics = <<>>
    /\ FrontendIdle

\* a query parameter violates its Query(...) bounds: 422, the function body never runs
Reject422(q) ==
    /\ status = 0
    /\ ~QueryValid(q)
    /\ req' = q
    /\ status' = 422
    /\ Empty
    /\ UNCHANGED <<articles, frontendVars>>

\* start_date > end_date: HTTPException(400) before the query
Reject400(q) ==
    /\ status = 0
    /\ QueryValid(q)
    /\ q.start_date > q.end_date
    /\ req' = q
    /\ status' = 400
    /\ Empty
    /\ UNCHANGED <<articles, frontendVars>>

\* The stages are bound one after the other, each to the value of the one before.
Compute(q) ==
    /\ status = 0
    /\ QueryValid(q)
    /\ ~(q.start_date > q.end_date)
    /\ \E stats \in {QueryStats(articles, q)} :
       \E fetched \in {final_select(stats, q.epsilon)} :
       \E n \in {Len(fetched)} :
       \E ds \in {AsSeq([i \in 1..n |-> fetched[i].narrative_date])} :
       \E cs \in {AsSeq([i \in 1..n |-> fetched[i].article_count])} :
       \E rm \in {AsSeq([i \in 1..n |-> Coalesce(fetched[i].rolling_mean, FZero)])} :
       \E rs \in {AsSeq([i \in 1..n |-> Coalesce(fetched[i].rolling_std, FZero)])} :
       \E ints \in {AsSeq([i \in 1..n |-> Coalesce(fetched[i].intensity, FZero)])} :
       \E sents \in {AsSeq([i \in 1..n |-> fetched[i].sentiment_mean])} :
       \E ipcts \in {AsSeq([i \in 1..n |-> IntensityPct(ints, i - 1, pwin_of(q))])} :
       \E spcts \in {AsSeq([i \in 1..n |-> SentimentPct(sents, i - 1, pwin_of(q))])} :
       \E kept \in {Kept(ds, q, n)} :
           /\ rolling_stats' = stats
           /\ rows' = fetched
           /\ dates' = ds /\ counts' = cs /\ rmean' = rm /\ rstd' = rs
           /\ intensities' = ints /\ sentiments' = sents
           /\ intensity_pcts' = ipcts /\ sentiment_pcts' = spcts
           /\ metrics' =
                [k \in 1..Len(kept) |->
                    [date |-> ds[kept[k]],
                     article_count |-> cs[kept[k]],
                     rolling_mean |-> rm[kept[k]],
                     rolling_std |-> rs[kept[k]],
                     intensity |-> ints[kept[k]],
                     sentiment_mean |-> sents[kept[k]],
                     intensity_percentile |-> ipcts[kept[k]],
                     sentiment_percentile |-> spcts[kept[k]]]]
    /\ req' = q
    /\ status' = 200
    /\ UNCHANGED <<articles, frontendVars>>

narrative_metrics(q) == Reject422(q) \/ Reject400(q) \/ Compute(q)

\* the response has been sent: the worker is ready for the next call
Respond ==
    /\ status # 0
    /\ req' = None
    /\ status' = 0
    /\ Empty
    /\ UNCHANGED <<articles, frontendVars>>

Next == (\E q \in Requests : narrative_metrics(q)) \/ Respond

Spec == Init /\ [][Next]_vars

(***************************************************************************)
(* Reference definitions used by the properties: the quantities of the     *)
(* specification computed directly from the lists of the last call.        *)
(***************************************************************************)
RECURSIVE SumRat(_)
SumRat(xs) == IF xs = <<>> THEN RZero ELSE RAdd(Head(xs), SumRat(Tail(xs)))

\* the counts of the days t-W .. t-1 of the computed series (1-based position t)
PriorCounts(t) == SubSeq(counts, Max(1, t - req.window), t - 1)

MeanOf(xs) == RDiv(SumRat(AsSeq([k \in 1..Len(xs) |-> RInt(xs[k])])), RInt(Len(xs)))

\* sum of the squared deviations of xs to m
SquaredDeviations(xs, m) ==
    SumRat(AsSeq([k \in 1..Len(xs) |-> RMul(RSub(RInt(xs[k]), m), RSub(RInt(xs[k]), m))]))

\* sample variance, divisor n - 1, from the deviations to the mean
SampleVarOf(xs) ==
    CHOOSE v \in {RDiv(SquaredDeviations(xs, m), RInt(Len(xs) - 1)) : m \in {MeanOf(xs)}} :
        TRUE

\* percent-rank of x in the multiset of the values vals[k], k in pos
RankIn(vals, pos, x) ==
    IF Cardinality(pos) <= 1 THEN FZero
    ELSE FRat(Rat(Cardinality({k \in pos : FLess(vals[k], x)}), Cardinality(pos) - 1))

Accepted == status = 200

\* C1: an accepted call returns exactly one row per calendar day of
\* [start_date, end_date], in ascending date order, without gap, duplicate or
\* date outside the range
C1_DenseRange ==
    Accepted =>
        /\ Len(metrics) = req.end_date - req.start_date + 1
        /\ \A k \in 1..Len(metrics) : metrics[k].date = req.start_date + k - 1

\* a two-day range whose first day has items and whose second has none
C1_Witness ==
    /\ Accepted
    /\ Len(metrics) = 2
    /\ metrics[1].article_count > 0
    /\ metrics[2].article_count = 0

\* C2: on every day of the computed series intensity is 0 when baseline_n is 0 and
\* otherwise (item_count - rolling_mean) / max(rolling_std, epsilon), mean and
\* standard deviation being those of the counts of the prior W days
C2_IntensityFormula ==
    Accepted =>
        \A t \in 1..Len(intensities) :
            IF rolling_stats[t].baseline_n = 0
            THEN intensities[t] = FZero
            ELSE \A prior \in {PriorCounts(t)} :
                 /\ FEq(intensities[t],
                        FDiv(CountMinus(counts[t], rmean[t]),
                             Greatest(rstd[t], FRat(req.epsilon))))
                 /\ rmean[t] = FRat(MeanOf(prior))
                 /\ Len(prior) >= 2 => FEq(rstd[t], FSqrt(SampleVarOf(prior)))

\* a day whose baseline deviation exceeds epsilon and whose intensity is not 0
C2_Witness ==
    /\ Accepted
    /\ \E t \in 1..Len(intensities) :
        /\ rolling_stats[t].baseline_n >= 2
        /\ FLess(FRat(req.epsilon), rstd[t])
        /\ FSign(intensities[t]) # 0
    /\ \E t \in 1..Len(intensities) :
        /\ rolling_stats[t].baseline_n >= 1
        /\ FLess(rstd[t], FRat(req.epsilon))
        /\ FSign(intensities[t]) # 0

\* the tables that differ from articles by one item of the requested narrative
\* on date d, added or removed
TablesChangedOn(d) ==
    {articles \cup {r} :
        r \in {x \in ArticleRows \ articles :
                    x.primary_label_v2 = req.narrative /\ DateOf(x.published_at) = d}}
    \cup {articles \ {r} :
        r \in {x \in articles :
                    x.primary_label_v2 = req.narrative /\ DateOf(x.published_at) = d}}

\* C3: the baseline of day t is taken from the days t-W .. t-1 and never from t:
\* baseline_n(t) = min(W, number of days before t), and a change of item_count(t)
\* alone leaves rolling_mean(t) and rolling_std(t) as they are
C3_BaselineExcludesToday ==
    Accepted =>
        /\ \A t \in 1..Len(rolling_stats) :
                rolling_stats[t].baseline_n = Min(req.window, t - 1)
        /\ \A t \in 1..Len(rolling_stats) :
            \A table \in TablesChangedOn(dates[t]) :
                \A other \in {QueryStats(table, req)} :
                    /\ other[t].article_count # rolling_stats[t].article_count
                    /\ other[t].rolling_mean = rolling_stats[t].rolling_mean
                    /\ other[t].rolling_std = rolling_stats[t].rolling_std

\* a day with a full baseline of W = 2 days and a non-zero deviation, whose own
\* count can still be changed
C3_Witness ==
    /\ Accepted
    /\ \E t \in 1..Len(rolling_stats) :
        /\ rolling_stats[t].baseline_n = 2
        /\ rolling_stats[t].article_count > 0
        /\ rolling_stats[t].rolling_std # None
        /\ FSign(rolling_stats[t].rolling_std) = 1
        /\ \E table \in TablesChangedOn(dates[t]) : Cardinality(table) < Cardinality(articles)

\* C4: rolling_std is the sample standard deviation (divisor n - 1) of the prior
\* window when it holds at least 2 values, exactly 0 and never null when it holds
\* fewer, and never negative; rolling_mean is 0 when there is no prior day
C4_RollingStd ==
    Accepted =>
        \A t \in 1..Len(rstd) :
            \A prior \in {PriorCounts(t)} :
                /\ rstd[t] # None
                /\ FSign(rstd[t]) >= 0
                /\ RLeq(RZero, rstd[t][1]) /\ RLeq(RZero, rstd[t][2])
                /\ IF Len(prior) >= 2
                   THEN FEq(rstd[t], FSqrt(SampleVarOf(prior)))
                   ELSE rstd[t] = FZero
                /\ Len(prior) = 0 => rmean[t] = FZero

\* the three cases in one series: no prior day, one prior day (a null deviation in
\* SQL), and two prior days with different counts
C4_Witness ==
    /\ Accepted
    /\ Len(rstd) >= 3
    /\ rolling_stats[1].rolling_mean = None
    /\ rolling_stats[2].rolling_std = None
    /\ rolling_stats[2].rolling_mean # FZero
    /\ \E t \in 3..Len(rstd) : FSign(rstd[t]) = 1

\* the windows the percentile loop ranks in (for each day, the slice of the
\* intensities and the defined values of the slice of the sentiments) and the
\* whole list of intensities
RankedWindows ==
    {Slice(intensities, start_idx(i, req.percentile_window), i + 1) :
        i \in 0..(Len(intensities) - 1)}
    \cup {NotNone(Slice(sentiments, start_idx(i, req.percentile_window), i + 1)) :
            i \in 0..(Len(sentiments) - 1)}
    \cup {intensities}

\* the values ranked in window w: its own values, and 0
RankedValues(w) == {w[k] : k \in 1..Len(w)} \cup {FZero}

\* C5: _percent_rank(window, x) is 0 when the window has n <= 1 values and
\* otherwise (number of values strictly less than x) / (n - 1); values equal to x
\* do not raise the rank, so tied values of one window get the same result
C5_PercentRank ==
    Accepted =>
        \A w \in RankedWindows :
            /\ \A x \in RankedValues(w) :
                _percent_rank(w, x) = RankIn(w, 1..Len(w), x)
            /\ \A k, l \in 1..Len(w) :
                FEq(w[k], w[l]) => _percent_rank(w, w[k]) = _percent_rank(w, w[l])
            /\ Len(w) <= 1 => \A x \in RankedValues(w) : _percent_rank(w, x) = FZero

\* a window of three values, two of them tied above the third
C5_Witness ==
    /\ Accepted
    /\ \E w \in RankedWindows :
        /\ Len(w) = 3
        /\ \E k, l, m \in 1..3 :
            /\ k # l
            /\ FEq(w[k], w[l])
            /\ FLess(w[m], w[k])
            /\ _percent_rank(w, w[k]) = FRat(Rat(1, 2))

\* C6: intensity_percentile of position t of the computed series (lookback
\* included) is the percent-rank of intensity(t) within the intensities at the
\* positions max(0, t-P+1) .. t, zero-count days included
C6_IntensityPercentileWindow ==
    Accepted =>
        /\ Len(intensity_pcts) = Len(intensities)
        /\ \A t \in 0..(Len(intensities) - 1) :
            intensity_pcts[t + 1] =
                RankIn(intensities,
                       {k + 1 : k \in Max(0, t - req.percentile_window + 1)..t},
                       intensities[t + 1])

\* P = 2, a day of rank 1 in its window right after a zero-count day, and a later
\* day of rank 0 whose window no longer reaches back to the smallest value
C6_Witness ==
    /\ Accepted
    /\ req.percentile_window = 2
    /\ \E t \in 2..Len(intensities) :
        /\ counts[t - 1] = 0
        /\ intensity_pcts[t] = FInt(1)
    /\ \E t \in 3..Len(intensities) :
        /\ intensity_pcts[t] = FZero
        /\ FLess(intensities[t - 2], intensities[t])
        /\ FLess(intensities[t], intensities[t - 1])

\* the positions of the last P days with a defined sentiment, up to and including
\* position t: days without sentiment take no place in the window
LastDefined(t, P) ==
    LET defined == {j \in 1..t : sentiments[j] # None}
    IN  {j \in defined : Cardinality({k \in defined : k >= j}) <= P}

\* the positions with a defined sentiment among the last P days of the dense
\* series, up to and including position t
DefinedInLastDays(t, P) ==
    {j \in Max(1, t - P + 1)..t : sentiments[j] # None}

C8_SentimentIffItems ==
    Accepted =>
        \A k \in 1..Len(metrics) :
            (metrics[k].sentiment_mean # None) <=> (metrics[k].article_count > 0)

\* C9: in every returned row sentiment_percentile is present iff sentiment_mean
\* is, and intensity_percentile is always present
C9_PercentilePresence ==
    Accepted =>
        \A k \in 1..Len(metrics) :
            /\ (metrics[k].sentiment_percentile # None) <=> (metrics[k].sentiment_mean # None)
            /\ metrics[k].intensity_percentile # None

\* a response with a row that has a sentiment and a row that has none
C9_Witness ==
    /\ Accepted
    /\ \E k \in 1..Len(metrics) :
        metrics[k].sentiment_mean # None /\ metrics[k].sentiment_percentile # None
    /\ \E k \in 1..Len(metrics) :
        metrics[k].sentiment_mean = None /\ metrics[k].sentiment_percentile = None

InUnitInterval(x) == FLeq(FZero, x) /\ FLeq(x, FInt(1))

\* C10: every intensity_percentile and every present sentiment_percentile lies
\* in [0, 1]
C10_PercentileRange ==
    Accepted =>
        /\ \A t \in 1..Len(intensity_pcts) : InUnitInterval(intensity_pcts[t])
        /\ \A t \in 1..Len(sentiment_pcts) :
                sentiment_pcts[t] # None => InUnitInterval(sentiment_pcts[t])
        /\ \A k \in 1..Len(metrics) :
            /\ InUnitInterval(metrics[k].intensity_percentile)
            /\ metrics[k].sentiment_percentile # None
                    => InUnitInterval(metrics[k].sentiment_percentile)

\* a response with a row at the top of its intensity window and a row at the top
\* of its sentiment window: both percentiles reach 1
C10_Witness ==
    /\ Accepted
    /\ \E k \in 1..Len(metrics) : metrics[k].intensity_percentile = FInt(1)
    /\ \E k \in 1..Len(metrics) : metrics[k].sentiment_percentile = FInt(1)

\* the ids of the items of narrative n published on date d
IdsOn(table, n, d) ==
    {a.id : a \in {b \in table : b.primary_label_v2 = n /\ DateOf(b.published_at) = d}}

\* C11: article_count of every day of the computed series is the number of
\* distinct ids published on that day for the narrative: rows that share an id
\* count once, whatever their other columns hold
C11_DistinctIds ==
    Accepted =>
        \A t \in 1..Len(counts) :
            counts[t] = Cardinality(IdsOn(articles, req.narrative, dates[t]))

(***************************************************************************)
(* src/utils.py: calculate_horizon_moves and detect_alerts, called one     *)
(* after the other by the dashboard.  A DataFrame is the sequence of its   *)
(* rows, a dict the sequence of its <<key, value>> items in insertion      *)
(* order; intensities and moves are exact rationals.                       *)
(***************************************************************************)
MaxDay == 3        \* the dates of the DataFrame and the target date range over 0..MaxDay

DfDates == 0..MaxDay
DfIntensities == {RInt(0), RInt(1), RInt(2), RInt(3)}
HorizonLists == {<<1, 2, 3, 5>>, <<2, 1, 2>>, <<>>}
Thresholds == {RInt(1), RInt(2)}

RECURSIVE FramesOver(_)
\* the DataFrames whose dates are ascending, distinct and among the first n dates
FramesOver(n) ==
    IF n = 0 THEN {<<>>}
    ELSE LET shorter == FramesOver(n - 1)
         IN  shorter \cup {Append(df, [date |-> n - 1, intensity |-> x]) :
                                df \in shorter, x \in DfIntensities}

\* pd.to_datetime of a date: the timestamp of its midnight, in hours
to_datetime(d) == 24 * d

\* timedelta(days=h), in hours
timedelta(h) == 24 * h

\* metrics_df['date'] = pd.to_datetime(metrics_df['date'])
ConvertDates(df) ==
    AsSeq([i \in 1..Len(df) |-> [df[i] EXCEPT !.date = to_datetime(df[i].date)]])

RECURSIVE RowsAt_LatestBefore(_, _)
\* faulty variant: the latest row at or before the timestamp
RowsAt_LatestBefore(df, dt) ==
    IF df = <<>> THEN <<>>
    ELSE IF df[Len(df)].date <= dt THEN <<df[Len(df)]>>
    ELSE RowsAt_LatestBefore(SubSeq(df, 1, Len(df) - 1), dt)

RECURSIVE RowsAt(_, _)
\* metrics_df[metrics_df['date'] == dt]: the rows with that timestamp, in order
RowsAt(df, dt) ==
    IF df = <<>> THEN <<>>
    ELSE (IF Head(df).date = dt THEN <<Head(df)>> ELSE <<>>) \o RowsAt(Tail(df), dt)

\* d[k] = v on a dict: a known key keeps its place, a new key goes last
DictSet(d, k, v) ==
    IF \E i \in 1..Len(d) : d[i][1] = k
    THEN AsSeq([i \in 1..Len(d) |-> IF d[i][1] = k THEN <<k, v>> ELSE d[i]])
    ELSE Append(d, <<k, v>>)

RECURSIVE NoneFor(_)
\* {h: None for h in horizons}
NoneFor(hs) ==
    IF hs = <<>> THEN <<>>
    ELSE DictSet(NoneFor(SubSeq(hs, 1, Len(hs) - 1)), hs[Len(hs)], None)

RECURSIVE MovesLoop(_, _, _, _)
\* the loop over the horizons hs, in order
MovesLoop(df, target_dt, target_intensity, hs) ==
    IF hs = <<>> THEN <<>>
    ELSE LET horizon == hs[Len(hs)]
             horizon_row == RowsAt(df, target_dt - timedelta(horizon))
         IN  DictSet(MovesLoop(df, target_dt, target_intensity, SubSeq(hs, 1, Len(hs) - 1)),
                     horizon,
                     IF horizon_row = <<>> THEN None
                     ELSE RSub(target_intensity, horizon_row[1].intensity))

\* the dict calculate_horizon_moves(metrics_df, target_date, horizons) returns
HorizonMoves(df, target, hs) ==
    LET converted == ConvertDates(df)
        target_dt == to_datetime(target)
        target_row == RowsAt(converted, target_dt)
    IN  IF target_row = <<>> THEN NoneFor(hs)
        ELSE MovesLoop(converted, target_dt, target_row[1].intensity, hs)

\* abs(move)
RAbs(x) == <<Abs(x[1]), x[2]>>

RECURSIVE Alerts_AtThreshold(_, _)
\* faulty variant: a move equal to the threshold alerts
Alerts_AtThreshold(items, tau) ==
    IF items = <<>> THEN <<>>
    ELSE LET horizon == items[Len(items)][1]
             move == items[Len(items)][2]
         IN  Alerts_AtThreshold(SubSeq(items, 1, Len(items) - 1), tau)
                \o (IF move # None /\ RLeq(tau, RAbs(move))
                    THEN <<[horizon |-> horizon, move |-> move, abs_move |-> RAbs(move)]>>
                    ELSE <<>>)

RECURSIVE Alerts(_, _)
\* the list detect_alerts(moves_dict, threshold) returns
Alerts(items, tau) ==
    IF items = <<>> THEN <<>>
    ELSE LET horizon == items[Len(items)][1]
             move == items[Len(items)][2]
         IN  Alerts(SubSeq(items, 1, Len(items) - 1), tau)
                \o (IF move # None /\ RLess(tau, RAbs(move))
                    THEN <<[horizon |-> horizon, move |-> move, abs_move |-> RAbs(move)]>>
                    ELSE <<>>)

BackendIdle ==
    /\ articles = {} /\ req = None /\ status = 0
    /\ rolling_stats = <<>> /\ rows = <<>> /\ dates = <<>> /\ counts = <<>>
    /\ rmean = <<>> /\ rstd = <<>> /\ intensities = <<>> /\ sentiments = <<>>
    /\ intensity_pcts = <<>> /\ sentiment_pcts = <<>> /\ metrics = <<>>

\* the dashboard has a DataFrame and a selected date
InitMoves ==
    /\ BackendIdle
    /\ metrics_df \in FramesOver(MaxDay + 1)
    /\ target_date \in DfDates
    /\ horizons \in HorizonLists
    /\ threshold \in Thresholds
    /\ moves = <<>> /\ alerts = <<>>
    /\ step = "selected"
    /\ CacheIdle /\ DashboardIdle

calculate_horizon_moves ==
    /\ step = "selected"
    /\ moves' = HorizonMoves(metrics_df, target_date, horizons)
    /\ step' = "moves"
    /\ UNCHANGED <<backendVars, cacheVars, dashboardVars, metrics_df, target_date, horizons,
                   threshold, alerts>>

detect_alerts ==
    /\ step = "moves"
    /\ alerts' = Alerts(moves, threshold)
    /\ step' = "alerts"
    /\ UNCHANGED <<backendVars, cacheVars, dashboardVars, metrics_df, target_date, horizons,
                   threshold, moves>>

NextMoves == calculate_horizon_moves \/ detect_alerts

SpecMoves == InitMoves /\ [][NextMoves]_vars

\* the dates of the DataFrame, and the intensity of a date that it has
DfHas(d) == \E i \in 1..Len(metrics_df) : metrics_df[i].date = d

IntensityOn(d) == metrics_df[CHOOSE i \in 1..Len(metrics_df) : metrics_df[i].date = d].intensity

\* the value the dict holds for key k
DictValue(d, k) == d[CHOOSE i \in 1..Len(d) : d[i][1] = k][2]

DictKeys(d) == {d[i][1] : i \in 1..Len(d)}

\* C12: calculate_horizon_moves returns one entry per requested horizon h: exactly
\* intensity(d) - intensity(d - h) when the target date d and the date d - h are
\* both dates of the series, None when either is not (no nearest date stands in);
\* a move of 0 is present, not None
C12_HorizonMoves ==
    step \in {"moves", "alerts"} =>
        /\ DictKeys(moves) = {horizons[i] : i \in 1..Len(horizons)}
        /\ Len(moves) = Cardinality(DictKeys(moves))
        /\ \A h \in DictKeys(moves) :
            IF DfHas(target_date) /\ DfHas(target_date - h)
            THEN /\ DictValue(moves, h) # None
                 /\ DictValue(moves, h)
                        = RSub(IntensityOn(target_date), IntensityOn(target_date - h))
                 /\ IntensityOn(target_date) = IntensityOn(target_date - h)
                        => DictValue(moves, h) = RZero
            ELSE DictValue(moves, h) = None

\* one call with a move of 0, a move that is not 0, a horizon whose date lies in
\* a gap of the series between two of its dates, and a horizon before its start
C12_Witness ==
    /\ step = "moves"
    /\ horizons = <<1, 2, 3, 5>>
    /\ DictValue(moves, 1) = RZero
    /\ DictValue(moves, 2) = None
    /\ DfHas(target_date - 3)
    /\ DictValue(moves, 3) = RInt(-2)
    /\ DictValue(moves, 5) = None

\* the horizons of the alerts, in order
AlertHorizons == [i \in 1..Len(alerts) |-> alerts[i].horizon]

\* C13: detect_alerts returns an alert for horizon h iff moves[h] is not None and
\* |moves[h]| > threshold, strictly: a move of +threshold or -threshold and a None
\* move give no alert; each alert carries the signed move and abs_move = |move|
C13_AlertIffAbove ==
    step = "alerts" =>
        /\ \A h \in DictKeys(moves) :
            (\E i \in 1..Len(alerts) : alerts[i].horizon = h)
                <=> /\ DictValue(moves, h) # None
                    /\ RLess(threshold, RAbs(DictValue(moves, h)))
        /\ \A i \in 1..Len(alerts) :
            /\ alerts[i].horizon \in DictKeys(moves)
            /\ alerts[i].move = DictValue(moves, alerts[i].horizon)
            /\ alerts[i].abs_move = (IF RLess(alerts[i].move, RZero)
                                     THEN RSub(RZero, alerts[i].move) ELSE alerts[i].move)
            /\ \A j \in 1..Len(alerts) : alerts[j].horizon = alerts[i].horizon => j = i

\* moves of +threshold, -threshold, beyond the threshold and None in one dict:
\* only the third alerts
C13_Witness ==
    /\ step = "alerts"
    /\ horizons = <<1, 2, 3, 5>>
    /\ DictValue(moves, 1) = threshold
    /\ DictValue(moves, 2) = RSub(RZero, threshold)
    /\ DictValue(moves, 3) = RInt(-2)
    /\ DictValue(moves, 5) = None
    /\ AlertHorizons = <<3>>
    /\ alerts[1].abs_move = RInt(2)

\* a call was made and has not been answered yet
Called == status # 0

\* start_date > end_date, window outside [1, 365], percentile_window outside
\* [1, 730] or epsilon outside (0, 10]
OutOfContract(q) ==
    \/ q.start_date > q.end_date
    \/ q.window < 1 \/ q.window > 365
    \/ q.percentile_window < 1 \/ q.percentile_window > 730
    \/ ~RLess(RZero, q.epsilon) \/ RLess(RInt(10), q.epsilon)

\* C14: a request out of contract is rejected with an error before the query is
\* run and returns no metrics; a request within it is accepted, and its window,
\* percentile_window and epsilon are the values the computation uses: the clamp
\* changes none of them
C14_RejectedBeforeQuery ==
    Called =>
        IF OutOfContract(req)
        THEN /\ status \in {400, 422}
             /\ rolling_stats = <<>> /\ rows = <<>> /\ metrics = <<>>
        ELSE /\ status = 200
             /\ win_of(req) = req.window
             /\ pwin_of(req) = req.percentile_window
             /\ dates[1] = req.start_date - Max(req.window, req.percentile_window)
             /\ \A t \in 1..Len(rolling_stats) :
                    rolling_stats[t].baseline_n = Min(req.window, t - 1)
             /\ rows = final_select(rolling_stats, req.epsilon)

\* a call rejected for its window above 365, over a table that has items of the
\* narrative in the requested range
C14_Witness ==
    /\ status = 422
    /\ req.window = 366
    /\ \E a \in articles :
        /\ a.primary_label_v2 = req.narrative
        /\ DateOf(a.published_at) = req.start_date
    /\ metrics = <<>>

\* the items of the requested narrative published in the computed span
ItemsInSpan ==
    {a \in articles :
        /\ a.primary_label_v2 = req.narrative
        /\ DateOf(a.published_at) >= req.start_date - Max(req.window, req.percentile_window)
        /\ DateOf(a.published_at) <= req.end_date}

\* a returned row for date d of a narrative without items
ZeroRow(d) ==
    [date |-> d, article_count |-> 0, rolling_mean |-> FZero, rolling_std |-> FZero,
     intensity |-> FZero, sentiment_mean |-> None,
     intensity_percentile |-> FZero, sentiment_percentile |-> None]

\* C15: for a narrative with no item in the computed span the call succeeds and
\* returns one row per day of [start_date, end_date], each with article_count,
\* rolling_mean, rolling_std, intensity and intensity_percentile 0 and without
\* sentiment_mean and sentiment_percentile
C15_NoItemsAllZero ==
    (Called /\ ~OutOfContract(req) /\ ItemsInSpan = {}) =>
        /\ status = 200
        /\ Len(metrics) = req.end_date - req.start_date + 1
        /\ \A k \in 1..Len(metrics) : metrics[k] = ZeroRow(req.start_date + k - 1)

\* a two-day answer for a narrative whose only item is older than the computed
\* span, while another narrative has an item inside it
C15_Witness ==
    /\ Accepted
    /\ ItemsInSpan = {}
    /\ Len(metrics) = 2
    /\ \E a \in articles : a.primary_label_v2 = req.narrative
    /\ \E a \in articles :
        /\ a.primary_label_v2 # req.narrative
        /\ DateOf(a.published_at) = req.start_date

\* all the values of w are equal
AllEqual(w) == \A k, l \in 1..Len(w) : FEq(w[k], w[l])

\* C16: a percentile window of n <= 1 values gives percentile exactly 0, and a
\* window whose values are all equal gives 0 for every element ranked in it; so
\* do the percentiles of the endpoint whose windows are of these kinds
C16_DegenerateWindows ==
    Accepted =>
        /\ \A w \in RankedWindows :
            /\ Len(w) <= 1 => \A x \in RankedValues(w) : _percent_rank(w, x) = FZero
            /\ AllEqual(w) => \A k \in 1..Len(w) : _percent_rank(w, w[k]) = FZero
        /\ \A i \in 0..(Len(intensities) - 1) :
            \A w \in {Slice(intensities, Max(0, i - req.percentile_window + 1), i + 1)} :
                (Len(w) <= 1 \/ AllEqual(w)) => intensity_pcts[i + 1] = FZero
        /\ \A i \in 0..(Len(sentiments) - 1) :
            \A w \in {NotNone(Slice(sentiments, Max(0, i - req.percentile_window + 1), i + 1))} :
                (sentiments[i + 1] # None /\ (Len(w) <= 1 \/ AllEqual(w)))
                    => sentiment_pcts[i + 1] = FZero

\* P = 2: a day whose sentiment stands alone in its window and is not 0, followed
\* by a day of the same sentiment, whose window holds two equal values
C16_Witness ==
    /\ Accepted
    /\ req.percentile_window = 2
    /\ \E t \in 2..(Len(sentiments) - 1) :
        /\ sentiments[t - 1] = None
        /\ sentiments[t] # None /\ sentiments[t] # FZero
        /\ sentiments[t + 1] = sentiments[t]
        /\ sentiment_pcts[t] = FZero
        /\ sentiment_pcts[t + 1] = FZero

(***************************************************************************)
(* The percentile loop of narrative_metrics on its own: the lists          *)
(* intensities and sentiments are given, as decoded from the fetched rows  *)
(* of a call with percentile_window = 10 that returns two days, and the    *)
(* loop computes the two lists of percentiles.                             *)
(***************************************************************************)
ScenarioRequests ==
    [narrative : Requested, start_date : {0}, end_date : {1}, window : {1},
     percentile_window : {10}, epsilon : {<<1, 4>>}]

ScenarioIntensities == {FInt(1), FInt(2), FInt(3)}

RECURSIVE ListsOf(_, _)
\* the lists of n values of S
ListsOf(S, n) ==
    IF n = 0 THEN {<<>>}
    ELSE {Append(l, x) : l \in ListsOf(S, n - 1), x \in S}

\* the number of rows fetched for q: one per day of [calc_start, end_date]
FetchedLen(q) == q.end_date - calc_start(q) + 1

\* the lists of intensities fetched for q.  The days that lie in the window of
\* every returned day are drawn in non-decreasing order only: a percent-rank does
\* not depend on the order of the values inside its window
ScenarioLists(q) ==
    LET n == FetchedLen(q)
        first == n - pwin_of(q)
        last == q.end_date - q.start_date + 1
        common == {l \in ListsOf(ScenarioIntensities, n - first - last) :
                        \A k \in 1..(Len(l) - 1) : FLeq(l[k], l[k + 1])}
    IN  {a \o l \o b : a \in ListsOf(ScenarioIntensities, first), l \in common,
                        b \in ListsOf(ScenarioIntensities, last)}

\* the lists the loop reads, decoded from the fetched rows: none has a sentiment
InitPercentiles ==
    /\ FrontendIdle
    /\ articles = {} /\ status = 0
    /\ req \in ScenarioRequests
    /\ dates = calendar(calc_start(req), req.end_date)
    /\ intensities \in ScenarioLists(req)
    /\ sentiments = AsSeq([i \in 1..Len(dates) |-> None])
    /\ rolling_stats = <<>> /\ rows = <<>> /\ counts = <<>>
    /\ rmean = <<>> /\ rstd = <<>>
    /\ intensity_pcts = <<>> /\ sentiment_pcts = <<>> /\ metrics = <<>>

\* for i in range(len(dates)): the two appends of every day
PercentileLoop ==
    /\ intensity_pcts = <<>>
    /\ \E n \in {Len(dates)} :
        /\ intensity_pcts' =
                AsSeq([i \in 1..n |-> IntensityPct(intensities, i - 1, pwin_of(req))])
        /\ sentiment_pcts' =
                AsSeq([i \in 1..n |-> SentimentPct(sentiments, i - 1, pwin_of(req))])
    /\ UNCHANGED <<articles, req, status, rolling_stats, rows, dates, counts, rmean, rstd,
                   intensities, sentiments, metrics, frontendVars>>

NextPercentiles == PercentileLoop

SpecPercentiles == InitPercentiles /\ [][NextPercentiles]_vars

\* the positions t of the fetched series such that days t and t + 1 are both
\* returned and have the same intensity
TiedReturnedDays ==
    {t \in (history_days(req) + 1)..(Len(intensities) - 1) :
        FEq(intensities[t], intensities[t + 1])}

\* the number of values strictly lower than that of day t among the P days that
\* end at day t
LowerInWindow(t) ==
    Cardinality({k \in Max(1, t - req.percentile_window + 1)..t :
                    FLess(intensities[k], intensities[t])})

\* C17 as stated: with P = 10, two consecutive returned days of identical
\* intensity get the same intensity_percentile, and with 4 strictly lower values
\* in the 10-day window that holds them both this percentile is 4/9
C17_TiedDaysSamePercentile ==
    (intensity_pcts # <<>> /\ req.percentile_window = 10) =>
        \A t \in TiedReturnedDays :
            /\ intensity_pcts[t] = intensity_pcts[t + 1]
            /\ LowerInWindow(t + 1) = 4 =>
                /\ intensity_pcts[t + 1] = FRat(Rat(4, 9))
                /\ intensity_pcts[t] = FRat(Rat(4, 9))

\* C17 as amended: with P = 10, each of two consecutive returned days of identical
\* intensity is ranked in its own window, the 10 days that end at it; a day whose
\* window has 4 strictly lower values has rank 5 and percentile 4/9, the tie not
\* raising it; the two days get the same percentile exactly when the day that is
\* in the window of the first and not of the second is not strictly lower
C17_TiedDaysOwnWindows ==
    (intensity_pcts # <<>> /\ req.percentile_window = 10) =>
        \A t \in TiedReturnedDays :
            /\ LowerInWindow(t + 1) = 4 => intensity_pcts[t + 1] = FRat(Rat(4, 9))
            /\ LowerInWindow(t) = 4 => intensity_pcts[t] = FRat(Rat(4, 9))
            /\ (intensity_pcts[t] = intensity_pcts[t + 1])
                    <=> ~FLess(intensities[t - 9], intensities[t])

\* two tied returned days, the window of the second with 4 lower and 4 higher
\* values, the first day of the window of the first being lower still:
\* percentiles 5/9 and 4/9
C17_Witness ==
    /\ intensity_pcts # <<>>
    /\ req.percentile_window = 10
    /\ \E t \in TiedReturnedDays :
        /\ LowerInWindow(t + 1) = 4
        /\ Cardinality({k \in (t - 8)..(t + 1) : FLess(intensities[t], intensities[k])}) = 4
        /\ FLess(intensities[t - 9], intensities[t])
        /\ intensity_pcts[t + 1] = FRat(Rat(4, 9))
        /\ intensity_pcts[t] = FRat(Rat(5, 9))

(***************************************************************************)
(* The rolling statistics of narrative_metrics on its own: the daily       *)
(* series is given, for a call with window = 5 that returns one day, the   *)
(* state starts with the rolling_stats CTE computed from it, and the final *)
(* SELECT and the decoding of the rows follow.                             *)
(***************************************************************************)
RollingRequests ==
    [narrative : Requested, start_date : {0}, end_date : {0}, window : {5},
     percentile_window : {1}, epsilon : {<<1, 4>>, <<1, 1>>, <<2, 1>>}]

\* the daily counts of six consecutive days
BaseCounts == <<10, 12, 11, 9, 13, 50>>

\* the daily_series relation over cal with the counts of BaseCounts plus extra
\* and no sentiment
SeriesOf(cal, extra) ==
    AsSeq([i \in 1..Len(cal) |->
        [narrative_date |-> cal[i], article_count |-> BaseCounts[i] + extra[i],
         sentiment_mean |-> None]])

InitRolling ==
    /\ FrontendIdle
    /\ articles = {} /\ status = 0
    /\ req \in RollingRequests
    /\ \E extra \in [1..FetchedLen(req) -> {0, 1}] :
        rolling_stats = rolling_stats_cte(
                            SeriesOf(calendar(calc_start(req), req.end_date), extra),
                            win_of(req))
    /\ rows = <<>> /\ dates = <<>> /\ counts = <<>>
    /\ rmean = <<>> /\ rstd = <<>> /\ intensities = <<>> /\ sentiments = <<>>
    /\ intensity_pcts = <<>> /\ sentiment_pcts = <<>> /\ metrics = <<>>

\* the final SELECT, conn.fetch and the loop over the rows
FetchRows ==
    /\ rows = <<>>
    /\ \E fetched \in {final_select(rolling_stats, req.epsilon)} :
       \E n \in {Len(fetched)} :
        /\ rows' = fetched
        /\ dates' = AsSeq([i \in 1..n |-> fetched[i].narrative_date])
        /\ counts' = AsSeq([i \in 1..n |-> fetched[i].article_count])
        /\ rmean' = AsSeq([i \in 1..n |-> Coalesce(fetched[i].rolling_mean, FZero)])
        /\ rstd' = AsSeq([i \in 1..n |-> Coalesce(fetched[i].rolling_std, FZero)])
        /\ intensities' = AsSeq([i \in 1..n |-> Coalesce(fetched[i].intensity, FZero)])
        /\ sentiments' = AsSeq([i \in 1..n |-> fetched[i].sentiment_mean])
    /\ UNCHANGED <<articles, req, status, rolling_stats, intensity_pcts, sentiment_pcts,
                   metrics, frontendVars>>

NextRolling == FetchRows

SpecRolling == InitRolling /\ [][NextRolling]_vars

\* C18: for the daily counts 10, 12, 11, 9, 13, 50 with W = 5 and epsilon below
\* the baseline deviation, day 6 has rolling_mean 11, sample variance 10/4 = 5/2
\* (rolling_std about 1.58) and intensity (50 - 11) / rolling_std, about 24.7
C18_WorkedExample ==
    (/\ rows # <<>>
     /\ counts = <<10, 12, 11, 9, 13, 50>>
     /\ req.window = 5
     /\ FLess(FRat(req.epsilon), rstd[6])) =>
        /\ rmean[6] = FInt(11)
        /\ rstd[6] = FSqrt(Rat(5, 2))
        /\ FLess(FRat(Rat(1575, 1000)), rstd[6]) /\ FLess(rstd[6], FRat(Rat(1585, 1000)))
        /\ FEq(intensities[6], FDiv(FInt(50 - 11), rstd[6]))
        /\ FLess(FRat(Rat(2465, 100)), intensities[6])
        /\ FLess(intensities[6], FRat(Rat(2475, 100)))

\* the six counts of the example, fetched and decoded with epsilon = 1
C18_Witness ==
    /\ rows # <<>>
    /\ counts = <<10, 12, 11, 9, 13, 50>>
    /\ req.epsilon = <<1, 1>>
    /\ rolling_stats[6].baseline_n = 5
    /\ FLess(FRat(req.epsilon), rstd[6])
    /\ intensities[6] = <<<<39, 1>>, <<2, 5>>>>

\* C19: the computed span starts exactly max(W, P) days before start_date and ends
\* at end_date; its days before start_date feed the windows of the returned days
\* and are never returned
C19_LookbackSpan ==
    Accepted =>
        /\ Len(dates) = req.end_date - req.start_date + 1
                            + Max(req.window, req.percentile_window)
        /\ \A t \in 1..Len(dates) :
            dates[t] = req.start_date - Max(req.window, req.percentile_window) + t - 1
        /\ \A k \in 1..Len(metrics) : metrics[k].date >= req.start_date
        /\ \A t \in 1..Len(dates) :
            dates[t] < req.start_date => \A k \in 1..Len(metrics) : metrics[k].date # dates[t]
        /\ \A k \in 1..Len(metrics) :
            \E t \in {Max(req.window, req.percentile_window) + k} :
                /\ metrics[k].date = dates[t]
                /\ metrics[k].rolling_mean = rmean[t]
                /\ metrics[k].intensity_percentile = intensity_pcts[t]
                /\ rolling_stats[t].baseline_n = req.window

\* P = 2 > W = 1: the span starts 2 days before start_date; the first returned
\* day has no item, the day before it has some, two days before it none: the
\* rolling mean and the percentile of the returned day come from the lookback
C19_Witness ==
    /\ Accepted
    /\ req.window = 1 /\ req.percentile_window = 2
    /\ Len(dates) = Len(metrics) + 2
    /\ counts[1] = 0 /\ counts[2] > 0 /\ counts[3] = 0
    /\ FSign(metrics[1].rolling_mean) = 1
    /\ metrics[1].intensity_percentile = FZero
    /\ intensity_pcts[2] = FInt(1)

(***************************************************************************)
(* src/api_client.py: get_narrative_metrics, a function under              *)
(* st.cache_data(ttl=300), and the backend that answers its requests.      *)
(* The decorator keeps the value the function returned under a key made of *)
(* the arguments of the call and returns it, without running the function, *)
(* to the calls with that key made less than ttl seconds later.            *)
(***************************************************************************)
CacheTtl == 300
MaxCalls == 2      \* calls of get_narrative_metrics in one behaviour
MaxTicks == 2      \* steps of the clock in one behaviour

\* the clock advances by half the ttl
ClockSteps == {150}

\* the default of the epsilon parameter of the endpoint
EpsilonDefault == <<1, 4>>

BaseArgs ==
    [narrative |-> "A", start_date |-> 0, end_date |-> 1, window |-> 1,
     percentile_window |-> 1]

\* the arguments of the calls: one tuple, and the tuples that differ from it in
\* one argument
ClientArgs ==
    {BaseArgs,
     [BaseArgs EXCEPT !.narrative = "B"],
     [BaseArgs EXCEPT !.start_date = 1],
     [BaseArgs EXCEPT !.end_date = 0],
     [BaseArgs EXCEPT !.window = 2],
     [BaseArgs EXCEPT !.window = 0],
     [BaseArgs EXCEPT !.percentile_window = 2]}

\* the table the backend reads: an item of each narrative on day 0
ClientTables ==
    {{[id |-> 1, primary_label_v2 |-> n, published_at |-> 12, sentiment_score |-> <<1, 1>>] :
        n \in Narratives}}

\* the list narrative_metrics builds from the fetched rows
MetricsFrom(fetched, q) ==
    LET n == Len(fetched)
        ds == AsSeq([i \in 1..n |-> fetched[i].narrative_date])
        ints == AsSeq([i \in 1..n |-> Coalesce(fetched[i].intensity, FZero)])
        sents == AsSeq([i \in 1..n |-> fetched[i].sentiment_mean])
        kept == Kept(ds, q, n)
    IN  AsSeq([k \in 1..Len(kept) |->
            [date |-> ds[kept[k]],
             article_count |-> fetched[kept[k]].article_count,
             rolling_mean |-> Coalesce(fetched[kept[k]].rolling_mean, FZero),
             rolling_std |-> Coalesce(fetched[kept[k]].rolling_std, FZero),
             intensity |-> ints[kept[k]],
             sentiment_mean |-> sents[kept[k]],
             intensity_percentile |-> IntensityPct(ints, kept[k] - 1, pwin_of(q)),
             sentiment_percentile |-> SentimentPct(sents, kept[k] - 1, pwin_of(q))]])

\* the list narrative_metrics returns for an accepted q over table
Response(table, q) ==
    CHOOSE m \in
        {MetricsFrom(fetched, q) :
            fetched \in {final_select(stats, q.epsilon) :
                stats \in {QueryStats(table, q)}}} : TRUE

\* the GET request of a call: the path holds the narrative, the query string the
\* four parameters; epsilon is never sent
RequestOf(args) ==
    [narrative |-> args.narrative,
     params |-> [window |-> args.window, percentile_window |-> args.percentile_window,
                 start_date |-> args.start_date, end_date |-> args.end_date]]

\* the parameters narrative_metrics gets from a request
QueryOf(request) ==
    [narrative |-> request.narrative,
     start_date |-> request.params.start_date, end_date |-> request.params.end_date,
     window |-> request.params.window,
     percentile_window |-> request.params.percentile_window,
     epsilon |-> EpsilonDefault]

\* the status the backend answers a request with
BackendStatus(request) ==
    IF ~QueryValid(QueryOf(request)) THEN 422
    ELSE IF QueryOf(request).start_date > QueryOf(request).end_date THEN 400
    ELSE 200

\* faulty variant: percentile_window is not part of the key
CacheKey_NoPercentileWindow(args) ==
    <<args.narrative, args.start_date, args.end_date, args.window>>

\* the key of a call in the cache: the values of its arguments
CacheKey(args) ==
    <<args.narrative, args.start_date, args.end_date, args.window, args.percentile_window>>

\* the entries of the call's key that have not expired
Fresh(args) ==
    {e \in cache : e.key = CacheKey(args) /\ now - e.stored_at < CacheTtl}

\* faulty variant: an empty list is not kept
Store_SkipEmpty(args, value, request) ==
    cache' = {e \in cache : e.key # CacheKey(args)}
                \cup (IF value = <<>> THEN {}
                      ELSE {[key |-> CacheKey(args), value |-> value, stored_at |-> now,
                             request |-> request]})

\* the function ran and returned value: the cache keeps it under the call's key
Store(args, value, request) ==
    cache' = {e \in cache : e.key # CacheKey(args)}
                \cup {[key |-> CacheKey(args), value |-> value, stored_at |-> now,
                       request |-> request]}

InitClient ==
    /\ articles \in ClientTables
    /\ req = None /\ status = 0
    /\ rolling_stats = <<>> /\ rows = <<>> /\ dates = <<>> /\ counts = <<>>
    /\ rmean = <<>> /\ rstd = <<>> /\ intensities = <<>> /\ sentiments = <<>>
    /\ intensity_pcts = <<>> /\ sentiment_pcts = <<>> /\ metrics = <<>>
    /\ FrontendIdle

\* the body of get_narrative_metrics ran and ended in how, returning value
Ran(args, how, value) ==
    /\ ncalls < MaxCalls
    /\ Fresh(args) = {}
    /\ Store(args, value, RequestOf(args))
    /\ call' = args
    /\ outcome' = how
    /\ sent' = RequestOf(args)
    /\ origin' = RequestOf(args)
    /\ returned' = value
    /\ ncalls' = ncalls + 1
    /\ UNCHANGED <<backendVars, utilsVars, dashboardVars, now>>

\* a call with a fresh entry under its key: the stored value, no request
CacheHit(args) ==
    /\ ncalls < MaxCalls
    /\ \E e \in Fresh(args) :
        /\ returned' = e.value
        /\ origin' = e.request
    /\ call' = args
    /\ outcome' = "hit"
    /\ sent' = None
    /\ ncalls' = ncalls + 1
    /\ UNCHANGED <<backendVars, utilsVars, dashboardVars, cache, now>>

\* the exceptions session.get and raise_for_status raise, each with the classes
\* of requests.exceptions it is an instance of
Exceptions == {"ConnectTimeout", "ReadTimeout", "HTTPError", "ConnectionError"}

BasesOf(exc) ==
    CASE exc = "ConnectTimeout" -> {"ConnectTimeout", "ConnectionError", "Timeout",
                                    "RequestException"}
      [] exc = "ReadTimeout" -> {"ReadTimeout", "Timeout", "RequestException"}
      [] exc = "HTTPError" -> {"HTTPError", "RequestException"}
      [] exc = "ConnectionError" -> {"ConnectionError", "RequestException"}

\* faulty variant: no except clause for RequestException
ExceptClause_NoCatchAll(exc) ==
    IF "Timeout" \in BasesOf(exc) THEN "timeout"
    ELSE IF "HTTPError" \in BasesOf(exc) THEN "http_error"
    ELSE "raised"

\* the except clause that handles exc: the first, in the order of the code, that
\* names one of its classes; "raised" if none does
ExceptClause(exc) ==
    IF "Timeout" \in BasesOf(exc) THEN "timeout"
    ELSE IF "HTTPError" \in BasesOf(exc) THEN "http_error"
    ELSE IF "RequestException" \in BasesOf(exc) THEN "request_error"
    ELSE "raised"

\* status_forcelist of the retry strategy: the request is sent again, at most
\* three times; with raise_on_status = False the last response is returned
RetryStatuses == {429, 500, 502, 503, 504}

\* the final statuses other than 200 a request may end with
ErrorStatuses(request) == RetryStatuses \cup ({BackendStatus(request)} \ {200})

\* response.raise_for_status() raises HTTPError for the 4xx and 5xx statuses
raise_for_status(st) == 400 <= st /\ st < 600

\* the backend answers 200 with the list of metrics
FetchOk(args) ==
    /\ ncalls < MaxCalls
    /\ Fresh(args) = {}
    /\ BackendStatus(RequestOf(args)) = 200
    /\ ~raise_for_status(BackendStatus(RequestOf(args)))
    /\ \E data \in {Response(articles, QueryOf(RequestOf(args)))} : Ran(args, "ok", data)

\* raise_for_status raises: the backend answers 400 or 422, or a status of the
\* forcelist that the retries did not cure
FetchHttpError(args) ==
    /\ \E st \in ErrorStatuses(RequestOf(args)) : raise_for_status(st)
    /\ Ran(args, ExceptClause("HTTPError"), <<>>)

\* no answer within the timeout
FetchTimeout(args) ==
    \E exc \in {e \in Exceptions : "Timeout" \in BasesOf(e)} :
        Ran(args, ExceptClause(exc), <<>>)

\* any other failure of the request
FetchRequestError(args) ==
    \E exc \in {e \in Exceptions : BasesOf(e) \cap {"Timeout", "HTTPError"} = {}} :
        Ran(args, ExceptClause(exc), <<>>)

get_narrative_metrics(args) ==
    \/ CacheHit(args)
    \/ FetchOk(args)
    \/ FetchHttpError(args)
    \/ FetchTimeout(args)
    \/ FetchRequestError(args)

\* time passes
Tick ==
    /\ \E d \in ClockSteps :
        /\ now + d <= MaxTicks * d
        /\ now' = now + d
    /\ UNCHANGED <<backendVars, utilsVars, dashboardVars, cache, call, outcome, sent, origin, returned,
                   ncalls>>

\* st.cache_data.clear(), as the Reload button of the dashboard calls it
cache_data_clear ==
    /\ cache' = {}
    /\ UNCHANGED <<backendVars, utilsVars, dashboardVars, now, call, outcome, sent, origin, returned,
                   ncalls>>

NextClient ==
    \/ \E args \in ClientArgs : get_narrative_metrics(args)
    \/ Tick
    \/ cache_data_clear

SpecClient == InitClient /\ [][NextClient]_vars

\* the tuple (narrative, start date, end date, W, P, epsilon) a request is
\* computed for
TupleOf(request) ==
    <<request.narrative, request.params.start_date, request.params.end_date,
      request.params.window, request.params.percentile_window,
      QueryOf(request).epsilon>>

\* C20: the value a call of get_narrative_metrics returns, from the cache or not,
\* is the answer to a request for the call's own tuple (narrative, start date,
\* end date, W, P, epsilon); a call never gets the result of another tuple, and
\* every entry of the cache is kept under the key of the tuple it answers
C20_CacheKeyedOnTuple ==
    /\ call # None =>
        /\ TupleOf(origin) = TupleOf(RequestOf(call))
        /\ outcome = "hit" =>
            \/ returned = <<>>
            \/ /\ BackendStatus(RequestOf(call)) = 200
               /\ returned = Response(articles, QueryOf(RequestOf(call)))
    /\ \A e \in cache :
        \A args \in ClientArgs :
            e.key = CacheKey(args) => TupleOf(e.request) = TupleOf(RequestOf(args))

\* a call answered from the cache, 150 seconds after the call with the same
\* arguments that fetched the list
C20_Witness ==
    /\ call = BaseArgs
    /\ outcome = "hit"
    /\ sent = None
    /\ now = 150
    /\ returned # <<>>
    /\ \E e \in cache : e.stored_at = 0 /\ e.value = returned

\* C22 as stated: baseline_n is 0, and intensity exactly 0, on each of the first
\* W days of the computed series, and on every day of a series shorter than W
C22_FirstWindowDaysZero ==
    Accepted =>
        \A t \in 1..Min(Len(dates), req.window) :
            /\ rolling_stats[t].baseline_n = 0
            /\ intensities[t] = FZero

\* C22, amended: baseline_n is 0, and intensity exactly 0, on the first day of the
\* computed series and on no other day; on the t-th day baseline_n is
\* min(t - 1, W), so that the days 2..W have a partial baseline, not an empty one
C22_FirstDayZero ==
    Accepted =>
        /\ rolling_stats[1].baseline_n = 0
        /\ intensities[1] = FZero
        /\ \A t \in 1..Len(dates) :
            /\ rolling_stats[t].baseline_n = Min(t - 1, req.window)
            /\ rolling_stats[t].baseline_n = 0 <=> t = 1

\* W = 2: the second day of the series has a baseline of one day and an
\* intensity that is not 0
C22_Witness ==
    /\ Accepted
    /\ req.window = 2
    /\ rolling_stats[1].baseline_n = 0
    /\ rolling_stats[2].baseline_n = 1
    /\ FSign(intensities[2]) # 0
    /\ rolling_stats[Len(dates)].baseline_n = 2

\* the position of the returned row k in the computed series
PositionOf(k) == CHOOSE t \in 1..Len(dates) : dates[t] = metrics[k].date

\* C23: every returned row has a full baseline and a full percentile window: the
\* W days before its date are in the computed series and are its baseline, and
\* the P days ending on its date are in the computed series and their P
\* intensities are the window of its intensity percentile
C23_FullWindows ==
    Accepted =>
        \A k \in 1..Len(metrics) :
            \E t \in {PositionOf(k)} :
                /\ t - req.window >= 1
                /\ \A j \in 1..req.window : dates[t - j] = metrics[k].date - j
                /\ rolling_stats[t].baseline_n = req.window
                /\ metrics[k].rolling_mean
                        = FRat(MeanOf(SubSeq(counts, t - req.window, t - 1)))
                /\ t - req.percentile_window + 1 >= 1
                /\ \A j \in 0..(req.percentile_window - 1) :
                        dates[t - j] = metrics[k].date - j
                /\ Len(Slice(intensities, start_idx(t - 1, req.percentile_window), t))
                        = req.percentile_window
                /\ metrics[k].intensity_percentile
                        = RankIn(intensities, (t - req.percentile_window + 1)..t,
                                 intensities[t])

\* W = P = 2: the first returned row is the third day of the series; its two
\* baseline days have different counts and the two intensities of its percentile
\* window differ
C23_Witness ==
    /\ Accepted
    /\ req.window = 2 /\ req.percentile_window = 2
    /\ Len(dates) = Len(metrics) + 2
    /\ FSign(metrics[1].rolling_std) = 1
    /\ intensities[2] # intensities[3]
    /\ metrics[1].intensity_percentile = FZero

\* the list returned to the call that differs from the last one in its
\* start_date only
WithStart(s) == Response(articles, [req EXCEPT !.start_date = s])

\* the earlier start dates a second call may ask for
EarlierStarts == {s \in RequestDates : s < req.start_date}

\* C24: the article_count, rolling_mean, rolling_std, intensity and
\* sentiment_mean returned for a date are the same for every start_date on or
\* before that date, the other parameters and the table being the same
C24_BaselineIndependentOfStart ==
    Accepted =>
        \A s \in EarlierStarts :
            \E other \in {WithStart(s)} :
                \A k \in 1..Len(metrics) :
                    \A j \in 1..Len(other) :
                        other[j].date = metrics[k].date =>
                            /\ other[j].article_count = metrics[k].article_count
                            /\ other[j].rolling_mean = metrics[k].rolling_mean
                            /\ other[j].rolling_std = metrics[k].rolling_std
                            /\ other[j].intensity = metrics[k].intensity
                            /\ other[j].sentiment_mean = metrics[k].sentiment_mean

\* W = 2: the table has an item on the day that only the earlier request
\* fetches; both requests return day 1, with a baseline deviation above 0
C24_Witness ==
    /\ Accepted
    /\ req.window = 2
    /\ req.start_date = 1 /\ req.end_date = 1
    /\ \E r \in articles :
        /\ r.primary_label_v2 = req.narrative
        /\ DateOf(r.published_at) = calc_start(req) - 1
    /\ FSign(metrics[1].rolling_std) = 1
    /\ FSign(metrics[1].intensity) # 0
    /\ Len(WithStart(0)) = 2

\* C25: the intensity_percentile and sentiment_percentile returned for a date are
\* the same for every start_date on or before that date, the other parameters
\* and the table being the same
C25_PercentilesIndependentOfStart ==
    Accepted =>
        \A s \in EarlierStarts :
            \E other \in {WithStart(s)} :
                \A k \in 1..Len(metrics) :
                    \A j \in 1..Len(other) :
                        other[j].date = metrics[k].date =>
                            /\ other[j].intensity_percentile
                                    = metrics[k].intensity_percentile
                            /\ other[j].sentiment_percentile
                                    = metrics[k].sentiment_percentile

\* the ways a fetch fails that get_narrative_metrics handles
Failures == {"timeout", "http_error", "request_error"}

IsList(v) == DOMAIN v = 1..Len(v)

\* C26: a call of get_narrative_metrics always returns a list to its caller: the
\* empty list when the request timed out, ended with a status that is not 2xx or
\* failed in another way, no exception being left to the caller, and the list of
\* the backend when the request succeeded
C26_FailuresReturnEmptyList ==
    call # None =>
        /\ outcome \in Failures \cup {"ok", "hit"}
        /\ IsList(returned)
        /\ outcome \in Failures => returned = <<>> /\ sent = RequestOf(call)
        /\ outcome = "ok" =>
            /\ BackendStatus(sent) = 200
            /\ returned = Response(articles, QueryOf(sent))
            /\ Len(returned) = call.end_date - call.start_date + 1

\* a request that is not a timeout and got no response, for arguments the
\* backend would accept: the call returned the empty list
C26_Witness ==
    /\ call = BaseArgs
    /\ outcome = "request_error"
    /\ sent = RequestOf(BaseArgs)
    /\ BackendStatus(sent) = 200
    /\ returned = <<>>
    /\ ncalls = 2

\* the step is a call of get_narrative_metrics
IsCall == ncalls' = ncalls + 1

\* C27: the empty list of a failed fetch is stored like a result: the failed call
\* leaves an entry with the empty list under its key; while that entry is less
\* than 300 seconds old and the cache has not been cleared, a call with the same
\* arguments returns the empty list and sends no request; the entry goes only
\* when the cache is cleared or when, after the 300 seconds, a call with its
\* arguments sends a request again
C27_FailureCached ==
    [][/\ (IsCall /\ outcome' \in Failures) =>
            \E e \in cache' :
                e.key = CacheKey(call') /\ e.value = <<>> /\ e.stored_at = now
       /\ (IsCall /\ \E e \in Fresh(call') : e.value = <<>>) =>
            /\ outcome' = "hit"
            /\ returned' = <<>>
            /\ sent' = None
            /\ cache' = cache
       /\ \A e \in cache \ cache' :
            e.value = <<>> =>
                \/ cache' = {} /\ ~IsCall
                \/ /\ IsCall
                   /\ e.key = CacheKey(call')
                   /\ now - e.stored_at >= CacheTtl
                   /\ sent' = RequestOf(call')
      ]_vars

\* a failed call for arguments the backend accepts, and 150 seconds later a call
\* with the same arguments answered with the stored empty list
C27_Witness ==
    /\ call = BaseArgs
    /\ BackendStatus(RequestOf(call)) = 200
    /\ outcome = "hit"
    /\ sent = None
    /\ returned = <<>>
    /\ now = 150
    /\ \E e \in cache : e.key = CacheKey(call) /\ e.value = <<>> /\ e.stored_at = 0

(***************************************************************************)
(* src/app.py: the dashboard script.  Streamlit runs the script from the   *)
(* top on every interaction and on st.rerun(); a run started while another *)
(* is in progress ends that one.  st.session_state lives across the runs,  *)
(* the other names of the script are those of the current run.  pc is      *)
(* "halt" after st.stop(), "loop" in the processing loop, "table" once the *)
(* loop is left, "rerun" after st.rerun().                                 *)
(***************************************************************************)
\* the values of the narrative multiselect
Selections == {<<>>, <<"A">>, <<"A", "B">>, <<"B", "A">>}

\* default = available_labels
DefaultSelection == <<"A", "B">>

\* the row appended to dashboard_data for a narrative
DashboardRow(narrative_id) == [_narrative |-> narrative_id]

\* the entries the alerts of a narrative add to all_alerts: none, or one
AlertEntries(narrative_id) == {<<>>, <<[narrative |-> narrative_id, horizon |-> 1]>>}

\* the ways the body of the loop ends for a narrative: the row is appended, the
\* metrics are empty, or an exception is caught, before or after the alerts
\* were appended
Endings == {"loaded", "empty", "error", "error_after_alerts"}

\* the condition under which the Stop button is rendered
StopButtonShown(run, stopped) == run /\ ~stopped

\* faulty variant: the partial results are never taken from the session state
UseCached_Never(stopped, cached) == FALSE

\* "Use cached data if analysis was stopped, otherwise start fresh"
UseCached(stopped, cached) == stopped /\ cached # <<>>

\* faulty variant: the session state keeps the last row only
Stored_LastOnly(data) == SubSeq(data, Len(data), Len(data))

\* dashboard_data.copy(), as stored in the session state after a narrative
Stored(data) == data

InitDashboard ==
    /\ articles = {}
    /\ BackendIdle
    /\ FrontendIdle

\* The script from its top to the processing loop, in a run where the button
\* click returned True ("none": no button) and the multiselect holds sel.
ScriptTop(click, sel) ==
    /\ clicked' = click
    /\ selected_narratives' = sel
    /\ stop_button' = StopButtonShown(dashboard_analysis_run, analysis_stopped)
    /\ loaded' = <<>>
    /\ IF click = "stop" /\ StopButtonShown(dashboard_analysis_run, analysis_stopped)
       THEN /\ analysis_stopped' = TRUE
            /\ pc' = "rerun"
            /\ dashboard_data' = <<>> /\ all_alerts' = <<>> /\ idx' = 0
            /\ UNCHANGED <<dashboard_analysis_run, dashboard_data_cached,
                           all_alerts_cached, cache>>
       ELSE IF click = "reload"
       THEN /\ dashboard_analysis_run' = FALSE
            /\ analysis_stopped' = FALSE
            /\ dashboard_data_cached' = <<>>
            /\ all_alerts_cached' = <<>>
            /\ cache' = {}
            /\ pc' = "rerun"
            /\ dashboard_data' = <<>> /\ all_alerts' = <<>> /\ idx' = 0
       ELSE IF sel = <<>>
       THEN /\ pc' = "halt"
            /\ dashboard_data' = <<>> /\ all_alerts' = <<>> /\ idx' = 0
            /\ UNCHANGED <<sessionVars, cache>>
       ELSE \E run \in {click = "run" \/ dashboard_analysis_run} :
            \E stopped \in {click # "run" /\ analysis_stopped} :
            \E data \in {IF click = "run" THEN <<>> ELSE dashboard_data_cached} :
            \E found \in {IF click = "run" THEN <<>> ELSE all_alerts_cached} :
                /\ dashboard_analysis_run' = run
                /\ analysis_stopped' = stopped
                /\ cache' = cache
                /\ IF ~run \/ (stopped /\ data = <<>>)
                   THEN /\ pc' = "halt"
                        /\ dashboard_data' = <<>> /\ all_alerts' = <<>> /\ idx' = 0
                        /\ dashboard_data_cached' = data
                        /\ all_alerts_cached' = found
                   ELSE /\ pc' = "loop"
                        /\ idx' = 1
                        /\ IF UseCached(stopped, data)
                           THEN /\ dashboard_data' = data
                                /\ all_alerts' = found
                                /\ dashboard_data_cached' = data
                                /\ all_alerts_cached' = found
                           ELSE /\ dashboard_data' = <<>>
                                /\ all_alerts' = <<>>
                                /\ dashboard_data_cached' = <<>>
                                /\ all_alerts_cached' = <<>>
    /\ UNCHANGED <<backendVars, utilsVars, now, call, outcome, sent, origin, returned,
                   ncalls>>

\* the first run of the session
FirstRun ==
    /\ pc = "start"
    /\ ScriptTop("none", DefaultSelection)

\* the run st.rerun() starts: no button returns True, the widgets keep their values
Rerun ==
    /\ pc = "rerun"
    /\ ScriptTop("none", selected_narratives)

\* the user clicks a button of the page, which leaves the selection as it is
Click(button) ==
    /\ pc \in {"halt", "loop", "table"}
    /\ button = "stop" => stop_button
    /\ ScriptTop(button, selected_narratives)

\* the user changes the selection
Select(sel) ==
    /\ pc \in {"halt", "loop", "table"}
    /\ sel # selected_narratives
    /\ ScriptTop("none", sel)

\* "Check if user clicked stop": the loop is left on the flag
LoopStopped ==
    /\ pc = "loop"
    /\ idx <= Len(selected_narratives)
    /\ analysis_stopped
    /\ dashboard_analysis_run' = FALSE
    /\ pc' = "table"
    /\ UNCHANGED <<backendVars, utilsVars, cacheVars, analysis_stopped,
                   dashboard_data_cached, all_alerts_cached, clicked,
                   selected_narratives, stop_button, dashboard_data, all_alerts, idx,
                   loaded>>

\* one iteration of the loop: get_narrative_metrics is called for the narrative
ProcessNarrative ==
    /\ pc = "loop"
    /\ idx <= Len(selected_narratives)
    /\ ~analysis_stopped
    /\ \E how \in Endings :
       \E found \in AlertEntries(selected_narratives[idx]) :
       \E data \in {Append(dashboard_data, DashboardRow(selected_narratives[idx]))} :
            /\ loaded' = Append(loaded, <<selected_narratives[idx], how>>)
            /\ all_alerts' = IF how \in {"loaded", "error_after_alerts"}
                             THEN all_alerts \o found ELSE all_alerts
            /\ dashboard_data' = IF how = "loaded" THEN data ELSE dashboard_data
            /\ dashboard_data_cached' = IF how = "loaded" THEN Stored(data)
                                        ELSE dashboard_data_cached
            /\ all_alerts_cached' = IF how = "loaded" THEN all_alerts \o found
                                    ELSE all_alerts_cached
    /\ idx' = idx + 1
    /\ UNCHANGED <<backendVars, utilsVars, cacheVars, dashboard_analysis_run,
                   analysis_stopped, pc, clicked, selected_narratives, stop_button>>

\* the loop has gone through the selection
LoopEnd ==
    /\ pc = "loop"
    /\ idx > Len(selected_narratives)
    /\ pc' = "table"
    /\ UNCHANGED <<backendVars, utilsVars, cacheVars, sessionVars, clicked,
                   selected_narratives, stop_button, dashboard_data, all_alerts, idx,
                   loaded>>

NextDashboard ==
    \/ FirstRun
    \/ Rerun
    \/ \E button \in {"run", "stop", "reload"} : Click(button)
    \/ \E sel \in Selections : Select(sel)
    \/ LoopStopped
    \/ ProcessNarrative
    \/ LoopEnd

SpecDashboard == InitDashboard /\ [][NextDashboard]_vars

RECURSIVE LoadedRows(_)
\* the rows of the narratives of the current run that ended with their row appended
LoadedRows(done) ==
    IF done = <<>> THEN <<>>
    ELSE LoadedRows(SubSeq(done, 1, Len(done) - 1))
            \o (IF done[Len(done)][2] = "loaded"
                THEN <<DashboardRow(done[Len(done)][1])>> ELSE <<>>)

\* C28: while analysis_stopped is set no run fetches a narrative; a run that
\* enters the loop with the flag set has the cached partial rows as its rows and
\* leaves the loop on its first iteration, with dashboard_analysis_run set to
\* False, the rows shown being the cached rows; only a click on Run Analysis or
\* on Reload resets the flag
C28_StoppedLoopExits ==
    /\ [](analysis_stopped =>
            /\ loaded = <<>>
            /\ pc = "loop" =>
                /\ idx = 1
                /\ dashboard_data # <<>>
                /\ dashboard_data = dashboard_data_cached
            /\ pc = "table" =>
                /\ idx = 1
                /\ ~dashboard_analysis_run
                /\ dashboard_data # <<>>
                /\ dashboard_data = dashboard_data_cached)
    /\ [][/\ (analysis_stopped /\ pc = "loop" /\ pc' = "table") =>
                /\ analysis_stopped'
                /\ ~dashboard_analysis_run'
                /\ dashboard_data' = dashboard_data_cached
          /\ (analysis_stopped /\ ~analysis_stopped') => clicked' \in {"run", "reload"}
          /\ (analysis_stopped /\ analysis_stopped') =>
                dashboard_data_cached' = dashboard_data_cached
         ]_vars

\* two narratives selected; the run was stopped after the first: the stopped run
\* shows the one cached row and has fetched nothing
C28_Witness ==
    /\ analysis_stopped
    /\ pc = "table"
    /\ ~dashboard_analysis_run
    /\ Len(selected_narratives) = 2
    /\ dashboard_data = <<DashboardRow(selected_narratives[1])>>
    /\ dashboard_data_cached = dashboard_data
    /\ loaded = <<>>

\* a run that executes the loop without the stop flag
AnalysisRun == pc \in {"loop", "table"} /\ ~analysis_stopped

\* C29: in an analysis run, after each narrative dashboard_data_cached is the
\* list of the rows built so far in the run: the rows of the narratives loaded
\* with success, in the order of the selection, none twice; all_alerts_cached
\* holds alerts of narratives processed in the run only
C29_CachedRowsOfRun ==
    AnalysisRun =>
        /\ dashboard_data_cached = dashboard_data
        /\ dashboard_data = LoadedRows(loaded)
        /\ Len(loaded) = idx - 1
        /\ \A k \in 1..Len(loaded) : loaded[k][1] = selected_narratives[k]
        /\ \A j, k \in 1..Len(dashboard_data_cached) :
            dashboard_data_cached[j] = dashboard_data_cached[k] => j = k
        /\ \A k \in 1..Len(all_alerts_cached) :
            \E j \in 1..Len(loaded) : loaded[j][1] = all_alerts_cached[k].narrative

\* a run over two narratives that follows a run with other rows: the first
\* narrative gave no row, the second gave a row and an alert
C29_Witness ==
    /\ AnalysisRun
    /\ clicked = "none"
    /\ selected_narratives = <<"B", "A">>
    /\ loaded = <<<<"B", "empty">>, <<"A", "loaded">>>>
    /\ dashboard_data_cached = <<DashboardRow("A")>>
    /\ Len(all_alerts_cached) = 1

\* C30: the Stop button is rendered in every run that executes the loop with
\* analysis_stopped false, the run started by a click on Run Analysis included
C30_StopShownWhileRunning ==
    (pc = "loop" /\ ~analysis_stopped) => stop_button

====
